---- MODULE Spec2Model ----
(***************************************************************************)
(* Model of the mancala solver: the board (board_state.h), the turn rules   *)
(* (TurnExecutor, GameMechanicsExecutor in game_mechanics.h) and the        *)
(* exhaustive search (Solver in solver.h).                                  *)
(*                                                                          *)
(* A side is [pits_ |-> f, bank_ |-> n] with f a function on 0..N-1, as the *)
(* code indexes pits from 0.  A board is the pair of the two sides.         *)
(***************************************************************************)
EXTENDS Integers, FiniteSets, Sequences, TLC

VARIABLES board_state, active_player_index_, last, initial_total

vars == <<board_state, active_player_index_, last, initial_total>>

\* ------------------------------------------------------------------------
\* Bounds of the model
\* ------------------------------------------------------------------------
\* largest number of pits per side of a constructed board
MaxPits == 3
\* largest number of stones (pits and banks together) of a constructed board
MaxTotal == 4

\* ------------------------------------------------------------------------
\* board_state.h
\* ------------------------------------------------------------------------
SinglePlayerBoardState(pits, bank) == [pits_ |-> pits, bank_ |-> bank]

addStoneToPit_Decrement(s, pit_id) == [s EXCEPT !.pits_[pit_id] = @ - 1]

addStoneToPit(s, pit_id) == [s EXCEPT !.pits_[pit_id] = @ + 1]

clearStonesFromPit(s, pit_id) == [s EXCEPT !.pits_[pit_id] = 0]

getNumPits(s) == Cardinality(DOMAIN s.pits_)

getNumStonesInPit(s, pit_id) == s.pits_[pit_id]

RECURSIVE sumLoop(_, _, _)
sumLoop(s, i, sum) ==
    IF i < getNumPits(s) THEN sumLoop(s, i + 1, sum + s.pits_[i]) ELSE sum

sumOfStonesInPits(s) == sumLoop(s, 0, 0)

addStonesToBank_Replace(s, num_stones) == [s EXCEPT !.bank_ = num_stones]

addStonesToBank(s, num_stones) == [s EXCEPT !.bank_ = @ + num_stones]

getNumStonesInBank(s) == s.bank_

BoardState(player_0_board_state, player_1_board_state) ==
    [player_0_board_state_ |-> player_0_board_state,
     player_1_board_state_ |-> player_1_board_state]

boardNumPits(b) == getNumPits(b.player_0_board_state_)

\* ------------------------------------------------------------------------
\* game_mechanics.h : TurnResult
\* ------------------------------------------------------------------------
makeInvalidResult == [valid |-> FALSE, ended_in_bank |-> FALSE]

makeNotEndedInBankResult == [valid |-> TRUE, ended_in_bank |-> FALSE]

makeEndedInBankResult_NoExtraTurn == [valid |-> TRUE, ended_in_bank |-> FALSE]

makeEndedInBankResult == [valid |-> TRUE, ended_in_bank |-> TRUE]

\* std::optional<TurnResult>
nullopt == [has_value |-> FALSE]

Some(v) == [has_value |-> TRUE, value |-> v]

\* ------------------------------------------------------------------------
\* game_mechanics.h : TurnExecutor
\* ------------------------------------------------------------------------
\* the sowing loop of dropStonesOnActivePlayerBoard: one stone per pit from
\* current_pit_index on, then one into the bank; `returned` is the return of
\* makeEndedInBankResult from inside the loop
RECURSIVE dropActiveLoop(_, _, _)
dropActiveLoop(current_pit_index, a, num_stones) ==
    IF num_stones > 0
    THEN IF current_pit_index = getNumPits(a)
         THEN [a |-> addStonesToBank(a, 1), num_stones |-> num_stones - 1,
               current_pit_index |-> current_pit_index,
               returned |-> (num_stones - 1 = 0)]
         ELSE dropActiveLoop(current_pit_index + 1,
                             addStoneToPit(a, current_pit_index), num_stones - 1)
    ELSE [a |-> a, num_stones |-> num_stones,
          current_pit_index |-> current_pit_index, returned |-> FALSE]

\* the condition of the capture
captureCondition_IgnoreOpposing(num_in_final_pit, num_stones_in_opposing_pit) ==
    num_in_final_pit = 1

captureCondition(num_in_final_pit, num_stones_in_opposing_pit) ==
    (num_in_final_pit = 1) /\ (num_stones_in_opposing_pit > 0)

\* what the capture adds to the bank
captureBankGain_OppositeOnly(num_stones_in_opposing_pit) ==
    num_stones_in_opposing_pit

captureBankGain(num_stones_in_opposing_pit) == 1 + num_stones_in_opposing_pit

\* the check made once the stones ran out on the active side; l is what the
\* sowing loop left.  sown_a and sown_o are the two sides as they are when
\* the check starts, captured tells whether the branch of the capture was
\* taken.
captureCheck(l, o) ==
    LET final_pit_index == l.current_pit_index - 1
        opposing_pit_index == getNumPits(o) - final_pit_index - 1
        num_stones_in_opposing_pit == getNumStonesInPit(o, opposing_pit_index)
    IN  IF captureCondition(getNumStonesInPit(l.a, final_pit_index),
                            num_stones_in_opposing_pit)
        THEN [a |-> clearStonesFromPit(
                        addStonesToBank(l.a, captureBankGain(num_stones_in_opposing_pit)),
                        final_pit_index),
              o |-> clearStonesFromPit(o, opposing_pit_index),
              num_stones |-> l.num_stones,
              result |-> Some(makeNotEndedInBankResult),
              sown_a |-> l.a, sown_o |-> o, captured |-> TRUE]
        ELSE [a |-> l.a, o |-> o, num_stones |-> l.num_stones,
              result |-> Some(makeNotEndedInBankResult),
              sown_a |-> l.a, sown_o |-> o, captured |-> FALSE]

\* dropStonesOnActivePlayerBoard after its loop, l being what the loop left
afterActiveLoop_NoFinalCheck(l, o) ==
    [a |-> l.a, o |-> o, num_stones |-> l.num_stones,
     result |-> IF l.returned THEN Some(makeEndedInBankResult) ELSE nullopt,
     sown_a |-> l.a, sown_o |-> o, captured |-> FALSE]

afterActiveLoop(l, o) ==
    IF l.returned
    THEN [a |-> l.a, o |-> o, num_stones |-> l.num_stones,
          result |-> Some(makeEndedInBankResult),
          sown_a |-> l.a, sown_o |-> o, captured |-> FALSE]
    ELSE IF l.num_stones = 0
         THEN captureCheck(l, o)
         ELSE [a |-> l.a, o |-> o, num_stones |-> l.num_stones,
               result |-> nullopt,
               sown_a |-> l.a, sown_o |-> o, captured |-> FALSE]

dropStonesOnActivePlayerBoard(starting_pit_index, a, o, num_stones) ==
    afterActiveLoop(dropActiveLoop(starting_pit_index, a, num_stones), o)

RECURSIVE dropOpposingLoop(_, _, _)
dropOpposingLoop(current_pit_index, o, num_stones) ==
    IF num_stones > 0 /\ current_pit_index # getNumPits(o)
    THEN dropOpposingLoop(current_pit_index + 1,
                          addStoneToPit(o, current_pit_index), num_stones - 1)
    ELSE [o |-> o, num_stones |-> num_stones]

\* dropStonesOnOpposingPlayerBoard after its loop, l being what the loop left
afterOpposingLoop(a, l) ==
    [a |-> a, o |-> l.o, num_stones |-> l.num_stones,
     result |-> IF l.num_stones = 0 THEN Some(makeNotEndedInBankResult) ELSE nullopt,
     sown_a |-> a, sown_o |-> l.o, captured |-> FALSE]

dropStonesOnOpposingPlayerBoard(a, o, num_stones) ==
    afterOpposingLoop(a, dropOpposingLoop(0, o, num_stones))

\* the while loop of playTurn on the sides and stones x; it ends with a
\* result, or without one when the stones ran out (the throw of
\* std::logic_error after the loop)
RECURSIVE playTurnLoop(_)
\* the loop after the drop on the active side gave r2
afterActiveDrop(r2) == IF r2.result.has_value THEN r2 ELSE playTurnLoop(r2)

\* the loop after the drop on the opposing side gave r1
afterOpposingDrop(r1) ==
    IF r1.result.has_value
    THEN r1
    ELSE afterActiveDrop(dropStonesOnActivePlayerBoard(0, r1.a, r1.o, r1.num_stones))

playTurnLoop(x) ==
    IF x.num_stones > 0
    THEN afterOpposingDrop(dropStonesOnOpposingPlayerBoard(x.a, x.o, x.num_stones))
    ELSE x

\* the pit the first stone is dropped into
firstStartingPitIndex_SourcePit(pit_index) == pit_index

firstStartingPitIndex(pit_index) == pit_index + 1

\* the test of the source pit's stones
sourceIsEmpty_OnlyNegative(num_stones) == num_stones < 0

sourceIsEmpty(num_stones) == num_stones <= 0

\* the two sides put back in the board
packBoard(player_index, a, o) ==
    IF player_index = 0 THEN BoardState(a, o) ELSE BoardState(o, a)

\* playTurn gives the TurnResult, the board_state it leaves, whether it threw,
\* and (for the properties) the board as sown before the capture check
playTurnOutcome(result, b, threw, sown, captured) ==
    [result |-> result, board_state |-> b, threw |-> threw,
     sown |-> sown, captured |-> captured]

\* playTurn after the first drop on the active side gave r0
afterFirstDrop(r0) == IF r0.result.has_value THEN r0 ELSE playTurnLoop(r0)

\* the end of playTurn: r is what the drops left
playTurnEnd(player_index, r) ==
    IF r.result.has_value
    THEN playTurnOutcome(r.result.value, packBoard(player_index, r.a, r.o), FALSE,
                         packBoard(player_index, r.sown_a, r.sown_o), r.captured)
    ELSE playTurnOutcome(makeInvalidResult, packBoard(player_index, r.a, r.o), TRUE,
                         packBoard(player_index, r.sown_a, r.sown_o), FALSE)

\* playTurn from the clearing of the source pit on: num_stones were read from
\* the pit, cleared is the active side with the pit cleared
playTurnSow(player_index, pit_index, num_stones, cleared, o) ==
    IF sourceIsEmpty(num_stones)
    THEN playTurnOutcome(makeInvalidResult, packBoard(player_index, cleared, o), FALSE,
                         packBoard(player_index, cleared, o), FALSE)
    ELSE playTurnEnd(player_index,
                     afterFirstDrop(dropStonesOnActivePlayerBoard(
                         firstStartingPitIndex(pit_index), cleared, o, num_stones)))

\* playTurn on the active side a and the opposing side o
playTurnSides(player_index, pit_index, a, o) ==
    playTurnSow(player_index, pit_index, getNumStonesInPit(a, pit_index),
                clearStonesFromPit(a, pit_index), o)

playTurn(player_index, pit_index, b) ==
    IF (player_index # 0) /\ (player_index # 1)
    THEN playTurnOutcome(makeInvalidResult, b, FALSE, b, FALSE)
    ELSE IF pit_index >= boardNumPits(b)
    THEN playTurnOutcome(makeInvalidResult, b, FALSE, b, FALSE)
    ELSE IF player_index = 0
    THEN playTurnSides(player_index, pit_index,
                       b.player_0_board_state_, b.player_1_board_state_)
    ELSE playTurnSides(player_index, pit_index,
                       b.player_1_board_state_, b.player_0_board_state_)

\* ------------------------------------------------------------------------
\* game_mechanics.h : GameMechanicsExecutor
\* ------------------------------------------------------------------------
nextActivePlayer_Keep(active) == active

nextActivePlayer(active) == (active + 1) % 2

\* GameMechanicsExecutor::playTurn once the TurnExecutor gave t: the returned
\* bool, the executor's active player afterwards, the board, and t
gmeAfterTurn(active, t) ==
    IF t.threw
    THEN [ret |-> FALSE, active |-> active, board_state |-> t.board_state, turn |-> t]
    ELSE IF ~t.result.valid
    THEN [ret |-> FALSE, active |-> active, board_state |-> t.board_state, turn |-> t]
    ELSE [ret |-> TRUE,
          active |-> IF ~t.result.ended_in_bank THEN nextActivePlayer(active)
                     ELSE active,
          board_state |-> t.board_state, turn |-> t]

\* GameMechanicsExecutor::playTurn on an executor whose active player is
\* `active`
gmePlayTurn(active, pit_index, b) == gmeAfterTurn(active, playTurn(active, pit_index, b))

RECURSIVE isSinglePlayerBoardFinishedLoop(_, _)
isSinglePlayerBoardFinishedLoop(s, i) ==
    IF i < getNumPits(s)
    THEN IF getNumStonesInPit(s, i) # 0 THEN FALSE
         ELSE isSinglePlayerBoardFinishedLoop(s, i + 1)
    ELSE TRUE

isSinglePlayerBoardFinished(s) == isSinglePlayerBoardFinishedLoop(s, 0)

isGameFinished_Player0Only(b) == isSinglePlayerBoardFinished(b.player_0_board_state_)

isGameFinished(b) ==
    IF isSinglePlayerBoardFinished(b.player_0_board_state_) THEN TRUE
    ELSE IF isSinglePlayerBoardFinished(b.player_1_board_state_) THEN TRUE
    ELSE FALSE

RECURSIVE clearAllPits(_, _)
clearAllPits(s, i) ==
    IF i < getNumPits(s) THEN clearAllPits(clearStonesFromPit(s, i), i + 1) ELSE s

\* one side's part of the finish sweep
sweepSide_KeepBank(s) == clearAllPits(s, 0)

sweepSide(s) == clearAllPits(addStonesToBank(s, sumOfStonesInPits(s)), 0)

\* std::optional<std::size_t>
noWinner == [has_value |-> FALSE, value |-> 0]

winnerValue(v) == [has_value |-> TRUE, value |-> v]

\* the comparison of the banks of the swept sides p0 and p1
compareBanks(p0, p1) ==
    [ret |-> IF getNumStonesInBank(p0) > getNumStonesInBank(p1)
             THEN winnerValue(0)
             ELSE IF getNumStonesInBank(p1) > getNumStonesInBank(p0)
             THEN winnerValue(1)
             ELSE winnerValue(2),
     board_state |-> BoardState(p0, p1)]

\* getWinnerPlayerIndex without the sweep of the two sides
getWinnerPlayerIndex_NoSweep(b) ==
    IF ~isGameFinished(b)
    THEN [ret |-> noWinner, board_state |-> b]
    ELSE compareBanks(b.player_0_board_state_, b.player_1_board_state_)

getWinnerPlayerIndex(b) ==
    IF ~isGameFinished(b)
    THEN [ret |-> noWinner, board_state |-> b]
    ELSE compareBanks(sweepSide(b.player_0_board_state_),
                      sweepSide(b.player_1_board_state_))

\* ------------------------------------------------------------------------
\* solver.h : Solver
\* ------------------------------------------------------------------------
\* num_winning_branches_, num_drawn_branches_, num_total_branches_ as solve
\* resets them
\* the three counters of the solver; depth and max_turns are not members of
\* the class: depth is the number of solveInner frames on the call stack and
\* max_turns the largest number of turns played along one line so far
zeroCounters(num_pits) ==
    [num_winning_branches_ |-> [i \in 0..(num_pits - 1) |-> 0],
     num_drawn_branches_ |-> [i \in 0..(num_pits - 1) |-> 0],
     num_total_branches_ |-> [i \in 0..(num_pits - 1) |-> 0],
     depth |-> 0, max_turns |-> 0,
     root_pit |-> 0,
     leaves |-> [i \in 0..(num_pits - 1) |-> 0],
     won_leaves |-> [i \in 0..(num_pits - 1) |-> 0],
     tied_leaves |-> [i \in 0..(num_pits - 1) |-> 0]]

\* root_pit, leaves, won_leaves and tied_leaves are no members of the class
\* either: root_pit is the pit of the iteration of the loop of solve that is
\* under way, and the three others count, for each root pit, the turns of
\* its inner search that ended the game, those of them won by the root
\* player and those of them tied
rootMoveStarted(c, i) == [c EXCEPT !.root_pit = i]

\* a turn of the inner search ended the game with winner w
leafVisited(c, w, initial_active_player_index) ==
    [c EXCEPT !.leaves[c.root_pit] = @ + 1,
              !.won_leaves[c.root_pit] =
                  IF w.value = initial_active_player_index THEN @ + 1 ELSE @,
              !.tied_leaves[c.root_pit] = IF w.value = 2 THEN @ + 1 ELSE @]

\* a valid turn has been played on the copy made in the current frame
turnPlayed(c) ==
    [c EXCEPT !.max_turns = IF c.depth + 1 > @ THEN c.depth + 1 ELSE @]

\* solveInner is entered, and left with r
enterInner(c) == [c EXCEPT !.depth = @ + 1]

leaveInner(r) == [ret |-> r.ret, c |-> [r.c EXCEPT !.depth = @ - 1]]

incWinning(c, i) == [c EXCEPT !.num_winning_branches_[i] = @ + 1]

incDrawn(c, i) == [c EXCEPT !.num_drawn_branches_[i] = @ + 1]

incTotal(c, i) == [c EXCEPT !.num_total_branches_[i] = @ + 1]

\* what solveInner returns once its loop over the pits is over
loopExitResult_NeverForced(active_player_index, initial_opposing_player_index) == FALSE

loopExitResult(active_player_index, initial_opposing_player_index) ==
    active_player_index = initial_opposing_player_index

\* solveInner(b, active, initial, pit, c): the position b and the active
\* player are those of the copied board and executor, c are the three
\* counters; it gives the returned bool and the counters afterwards.
\* solveInnerLoop is its for loop from pit i on.
RECURSIVE solveInner(_, _, _, _, _)
RECURSIVE solveInnerLoop(_, _, _, _, _, _)

\* the loop body after the recursive call gave r
solveInnerChild_ReturnsFirst(i, b, active_player_index, initial_active_player_index, initial_pit_index, r) ==
    [ret |-> r.ret, c |-> r.c]

solveInnerChild(i, b, active_player_index, initial_active_player_index, initial_pit_index, r) ==
    IF r.ret /\ (active_player_index = initial_active_player_index)
    THEN [ret |-> TRUE, c |-> r.c]
    ELSE IF ~r.ret /\ (active_player_index # initial_active_player_index)
    THEN [ret |-> FALSE, c |-> r.c]
    ELSE solveInnerLoop(i + 1, b, active_player_index,
                        initial_active_player_index, initial_pit_index, r.c)

\* the loop body for a turn that ended the game with winner w
solveInnerTerminal(i, b, active_player_index, initial_active_player_index, initial_pit_index, c, w) ==
    IF w.value = initial_active_player_index
    THEN IF active_player_index = initial_active_player_index
         THEN [ret |-> TRUE,
               c |-> incTotal(incWinning(c, initial_pit_index), initial_pit_index)]
         ELSE solveInnerLoop(i + 1, b, active_player_index,
                             initial_active_player_index, initial_pit_index,
                             incTotal(incTotal(incWinning(c, initial_pit_index),
                                               initial_pit_index), initial_pit_index))
    ELSE IF w.value = (initial_active_player_index + 1) % 2
    THEN IF active_player_index = (initial_active_player_index + 1) % 2
         THEN [ret |-> FALSE, c |-> c]
         ELSE solveInnerLoop(i + 1, b, active_player_index,
                             initial_active_player_index, initial_pit_index,
                             incTotal(c, initial_pit_index))
    ELSE solveInnerLoop(i + 1, b, active_player_index,
                        initial_active_player_index, initial_pit_index,
                        incTotal(incDrawn(c, initial_pit_index), initial_pit_index))

\* the loop body after getWinnerPlayerIndex gave w on the board of the valid
\* turn g
solveInnerWinner(i, b, active_player_index, initial_active_player_index, initial_pit_index, c, g, w) ==
    IF w.ret.has_value
    THEN solveInnerTerminal(i, b, active_player_index, initial_active_player_index,
                            initial_pit_index,
                            leafVisited(c, w.ret, initial_active_player_index), w.ret)
    ELSE solveInnerChild(i, b, active_player_index, initial_active_player_index,
                         initial_pit_index,
                         solveInner(g.board_state, g.active,
                                    initial_active_player_index, initial_pit_index, c))

\* the loop body after playTurn(i) on the copies gave g
solveInnerTurn_PlaysOnParent(i, b, active_player_index, initial_active_player_index, initial_pit_index, c, g) ==
    IF ~g.ret
    THEN solveInnerLoop(i + 1, b, active_player_index,
                        initial_active_player_index, initial_pit_index, c)
    ELSE solveInnerWinner(i, g.board_state, active_player_index,
                          initial_active_player_index, initial_pit_index,
                          turnPlayed(c), g, getWinnerPlayerIndex(g.board_state))

solveInnerTurn(i, b, active_player_index, initial_active_player_index, initial_pit_index, c, g) ==
    IF ~g.ret
    THEN solveInnerLoop(i + 1, b, active_player_index,
                        initial_active_player_index, initial_pit_index, c)
    ELSE solveInnerWinner(i, b, active_player_index, initial_active_player_index,
                          initial_pit_index, turnPlayed(c), g,
                          getWinnerPlayerIndex(g.board_state))

solveInnerLoop(i, b, active_player_index, initial_active_player_index, initial_pit_index, c) ==
    IF i >= boardNumPits(b)
    THEN [ret |-> loopExitResult(active_player_index,
                                 (initial_active_player_index + 1) % 2),
          c |-> c]
    ELSE solveInnerTurn(i, b, active_player_index, initial_active_player_index,
                        initial_pit_index, c, gmePlayTurn(active_player_index, i, b))

solveInner(b, active_player_index, initial_active_player_index, initial_pit_index, c) ==
    leaveInner(solveInnerLoop(0, b, active_player_index, initial_active_player_index,
                              initial_pit_index, enterInner(c)))

\* the second loop of solve.  The ratios are doubles: winning / total is NaN
\* when total is 0 and NaN > x is false; the highest ratio so far is kept as
\* the fraction hn / hd (0.0 at first)
RECURSIVE fallbackLoop(_, _, _, _, _)
fallbackLoop(i, c, hn, hd, index_of_highest_win_and_draw_ratio) ==
    IF i >= Cardinality(DOMAIN c.num_total_branches_)
    THEN index_of_highest_win_and_draw_ratio
    ELSE IF (c.num_total_branches_[i] > 0)
            /\ (c.num_winning_branches_[i] * hd > hn * c.num_total_branches_[i])
         THEN fallbackLoop(i + 1, c, c.num_winning_branches_[i],
                           c.num_total_branches_[i], i)
         ELSE fallbackLoop(i + 1, c, hn, hd, index_of_highest_win_and_draw_ratio)

\* the first loop of solve from pit i on; it gives the returned pair and the
\* counters
RECURSIVE solveRootLoop(_, _, _, _)

\* the loop body after solveInner gave r
solveRootChild(i, b, initial_active_player_index, r) ==
    IF r.ret
    THEN [pit |-> i, guaranteed |-> TRUE, c |-> r.c]
    ELSE solveRootLoop(i + 1, b, initial_active_player_index, r.c)

\* the loop body after getWinnerPlayerIndex gave w on the board of the valid
\* turn g
solveRootWinner(i, b, initial_active_player_index, c, g, w) ==
    IF w.ret.has_value
    THEN IF w.ret.value = initial_active_player_index
         THEN [pit |-> i, guaranteed |-> TRUE, c |-> c]
         ELSE solveRootLoop(i + 1, b, initial_active_player_index, c)
    ELSE solveRootChild(i, b, initial_active_player_index,
                        solveInner(g.board_state, g.active,
                                   initial_active_player_index, i,
                                   rootMoveStarted(c, i)))

\* the loop body after playTurn(i) on the copies gave g
solveRootTurn(i, b, initial_active_player_index, c, g) ==
    IF ~g.ret
    THEN solveRootLoop(i + 1, b, initial_active_player_index, c)
    ELSE solveRootWinner(i, b, initial_active_player_index, turnPlayed(c), g,
                         getWinnerPlayerIndex(g.board_state))

solveRootLoop(i, b, initial_active_player_index, c) ==
    IF i >= boardNumPits(b)
    THEN [pit |-> fallbackLoop(0, c, 0, 1, 0), guaranteed |-> FALSE, c |-> c]
    ELSE solveRootTurn(i, b, initial_active_player_index, c,
                       gmePlayTurn(initial_active_player_index, i, b))

solve(b, active) == solveRootLoop(0, b, active, zeroCounters(boardNumPits(b)))

\* ------------------------------------------------------------------------
\* The program as a state machine
\* ------------------------------------------------------------------------
\* the sides a board is constructed from: N pits, no count negative
sideStones(s) == sumOfStonesInPits(s) + s.bank_

Sides(num_pits) ==
    { s \in [pits_ : [0..(num_pits - 1) -> 0..MaxTotal], bank_ : 0..MaxTotal] :
        sideStones(s) <= MaxTotal }

totalStones(b) ==
    sideStones(b.player_0_board_state_) + sideStones(b.player_1_board_state_)

\* the record of the call that has just returned: its arguments, the board
\* and the active player before it, and what it returned; op is "none" when
\* the caller has taken the result and no call is under way
noCall(b, active) ==
    [op |-> "none", player |-> 0, pit |-> 0, pre |-> b, pre_active |-> active,
     result |-> [valid |-> FALSE, ended_in_bank |-> FALSE], ret |-> FALSE,
     winner |-> noWinner, threw |-> FALSE, sown |-> b, captured |-> FALSE,
     solution |-> [pit |-> 0, guaranteed |-> FALSE],
     counters |-> zeroCounters(boardNumPits(b))]

\* the check in the body of BoardState(side0, side1)
pitCountsDiffer_Never(num_pits_0, num_pits_1) == FALSE

pitCountsDiffer(num_pits_0, num_pits_1) == num_pits_0 # num_pits_1

\* BoardState(side0, side1): the members are initialised from the two sides,
\* then the body throws std::invalid_argument when the pit counts differ
constructBoardState(player_0_board_state, player_1_board_state) ==
    [board_state |-> BoardState(player_0_board_state, player_1_board_state),
     threw |-> pitCountsDiffer(getNumPits(player_0_board_state),
                               getNumPits(player_1_board_state))]

\* the state after the constructor gave k: when it threw there is no board
\* (nothing in main catches the exception) and no call is ever made
Constructed(k) ==
    /\ board_state = k.board_state
    /\ initial_total = totalStones(k.board_state)
    /\ active_player_index_ \in {0, 1}
    /\ last = [noCall(k.board_state, active_player_index_) EXCEPT
                 !.op = "BoardState::BoardState", !.threw = k.threw,
                 !.sown = k.board_state]

\* main: the board is constructed from two sides, then the executor with
\* either player to move
Init ==
    \E num_pits_0 \in 1..MaxPits :
      \E num_pits_1 \in 1..MaxPits :
        \E s0 \in Sides(num_pits_0) :
          \E s1 \in { s \in Sides(num_pits_1) : sideStones(s0) + sideStones(s) <= MaxTotal } :
            Constructed(constructBoardState(s0, s1))

\* the state after TurnExecutor::playTurn gave t
TurnExecutorPlayTurnDone(player_index, pit_index, t) ==
    /\ board_state' = t.board_state
    /\ last' = [noCall(board_state, active_player_index_) EXCEPT
                  !.op = "TurnExecutor::playTurn", !.player = player_index,
                  !.pit = pit_index, !.result = t.result, !.ret = t.result.valid,
                  !.threw = t.threw, !.sown = t.sown, !.captured = t.captured]
    /\ UNCHANGED <<active_player_index_, initial_total>>

\* TurnExecutor::playTurn called on the board directly, with any player and
\* pit index (2 and the pit count stand for the out-of-range values)
TurnExecutorPlayTurn(player_index, pit_index) ==
    /\ last.op = "none"
    /\ TurnExecutorPlayTurnDone(player_index, pit_index,
                                playTurn(player_index, pit_index, board_state))

\* the state after GameMechanicsExecutor::playTurn gave g
GameMechanicsExecutorPlayTurnDone(pit_index, g) ==
    /\ board_state' = g.board_state
    /\ active_player_index_' = g.active
    /\ last' = [noCall(board_state, active_player_index_) EXCEPT
                  !.op = "GameMechanicsExecutor::playTurn",
                  !.player = active_player_index_,
                  !.pit = pit_index, !.result = g.turn.result, !.ret = g.ret,
                  !.threw = g.turn.threw, !.sown = g.turn.sown,
                  !.captured = g.turn.captured]
    /\ UNCHANGED initial_total

GameMechanicsExecutorPlayTurn(pit_index) ==
    /\ last.op = "none"
    /\ GameMechanicsExecutorPlayTurnDone(
           pit_index, gmePlayTurn(active_player_index_, pit_index, board_state))

IsGameFinished ==
    /\ last.op = "none"
    /\ last' = [noCall(board_state, active_player_index_) EXCEPT
                  !.op = "isGameFinished", !.ret = isGameFinished(board_state)]
    /\ UNCHANGED <<board_state, active_player_index_, initial_total>>

\* the state after getWinnerPlayerIndex gave w
GetWinnerPlayerIndexDone(w) ==
    /\ board_state' = w.board_state
    /\ last' = [noCall(board_state, active_player_index_) EXCEPT
                  !.op = "getWinnerPlayerIndex", !.winner = w.ret,
                  !.ret = w.ret.has_value, !.sown = w.board_state]
    /\ UNCHANGED <<active_player_index_, initial_total>>

GetWinnerPlayerIndex ==
    /\ last.op = "none"
    /\ GetWinnerPlayerIndexDone(getWinnerPlayerIndex(board_state))

\* the state after solve gave s
SolveDone(s) ==
    /\ last' = [noCall(board_state, active_player_index_) EXCEPT
                  !.op = "Solver::solve",
                  !.solution = [pit |-> s.pit, guaranteed |-> s.guaranteed],
                  !.ret = s.guaranteed, !.counters = s.c]
    /\ UNCHANGED <<board_state, active_player_index_, initial_total>>

\* Solver::solve on the current board and executor (both taken by const
\* reference and copied before any turn is played)
Solve ==
    /\ last.op = "none"
    /\ SolveDone(solve(board_state, active_player_index_))

\* the caller takes the result of the call and goes on (the loop of
\* playManualGame, the statements of main after solve)
Return ==
    /\ last.op # "none"
    /\ ~last.threw
    /\ last' = noCall(board_state, active_player_index_)
    /\ UNCHANGED <<board_state, active_player_index_, initial_total>>

Next ==
    \/ \E player_index \in 0..2 :
         \E pit_index \in 0..boardNumPits(board_state) :
           TurnExecutorPlayTurn(player_index, pit_index)
    \/ \E pit_index \in 0..boardNumPits(board_state) :
         GameMechanicsExecutorPlayTurn(pit_index)
    \/ IsGameFinished
    \/ GetWinnerPlayerIndex
    \/ Solve
    \/ Return

Spec == Init /\ [][Next]_vars

\* ------------------------------------------------------------------------
\* One line of the search of the solver: the body of the loop of solve and
\* of solveInner, over and over.  A valid turn is played on the copies and
\* getWinnerPlayerIndex makes the finish check on the board of the turn (a
\* finished board is swept); the line goes on, one frame of solveInner
\* deeper, when the game is not finished.  An invalid turn is skipped by the
\* loop and is no step of a line.
\* ------------------------------------------------------------------------
\* the state after the valid turn g and the finish check w
ExploreTurnDone(pit_index, g, w) ==
    /\ board_state' = w.board_state
    /\ active_player_index_' = g.active
    /\ last' = [noCall(board_state, active_player_index_) EXCEPT
                  !.op = "Solver::solveInner", !.player = active_player_index_,
                  !.pit = pit_index, !.result = g.turn.result, !.ret = g.ret,
                  !.threw = g.turn.threw, !.sown = g.turn.sown,
                  !.captured = g.turn.captured, !.winner = w.ret]
    /\ UNCHANGED initial_total

\* the state after playTurn(pit_index) on the copies gave g
ExploreTurnPlayed(pit_index, g) ==
    /\ g.ret
    /\ ExploreTurnDone(pit_index, g, getWinnerPlayerIndex(g.board_state))

ExploreTurn(pit_index) ==
    /\ ~last.threw
    /\ (last.op = "Solver::solveInner") => ~isGameFinished(board_state)
    /\ ExploreTurnPlayed(pit_index,
                         gmePlayTurn(active_player_index_, pit_index, board_state))

PlayNext ==
    \E pit_index \in 0..(boardNumPits(board_state) - 1) : ExploreTurn(pit_index)

\* the loops of the solver go on to the next turn as long as there is one
PlaySpec == Init /\ [][PlayNext]_vars /\ WF_vars(PlayNext)

\* ------------------------------------------------------------------------
\* The rules, stated apart from the code, for the properties below
\* ------------------------------------------------------------------------
RefSide(b, player) ==
    IF player = 0 THEN b.player_0_board_state_ ELSE b.player_1_board_state_

RECURSIVE RefSetSum(_, _)
RefSetSum(f, S) ==
    IF S = {} THEN 0
    ELSE LET x == CHOOSE y \in S : TRUE IN f[x] + RefSetSum(f, S \ {x})

RefPitSum(s) == RefSetSum(s.pits_, DOMAIN s.pits_)

RefTotal(b) ==
    RefPitSum(b.player_0_board_state_) + b.player_0_board_state_.bank_
    + RefPitSum(b.player_1_board_state_) + b.player_1_board_state_.bank_

RefFinished(b) ==
    \/ \A i \in DOMAIN b.player_0_board_state_.pits_ : b.player_0_board_state_.pits_[i] = 0
    \/ \A i \in DOMAIN b.player_1_board_state_.pits_ : b.player_1_board_state_.pits_[i] = 0

\* a turn is legal: a player of the game, a pit of the board, stones in it
RefValid(b, player, pit) ==
    /\ player \in {0, 1}
    /\ pit \in DOMAIN RefSide(b, player).pits_
    /\ RefSide(b, player).pits_[pit] > 0

RefSource(b, player, pit) == RefSide(b, player).pits_[pit]

RefCycle(b) == 2 * boardNumPits(b) + 1

\* the number of the s stones that the k-th slot of the cycle receives
RefReceived(s, k, cycle) == Cardinality({ j \in 1..s : j % cycle = k % cycle })

\* the slots of the cycle, counted from 1 at the pit after the source pit
RefSlotOfMoverPit(b, pit, i) ==
    IF i > pit THEN i - pit ELSE 2 * boardNumPits(b) - pit + 1 + i

RefSlotOfBank(b, pit) == boardNumPits(b) - pit

RefSlotOfOpposingPit(b, pit, i) == boardNumPits(b) - pit + 1 + i

\* the slot the last stone is placed in
RefLastSlot(b, player, pit) == ((RefSource(b, player, pit) - 1) % RefCycle(b)) + 1

RefLandsInBank(b, player, pit) == RefLastSlot(b, player, pit) = RefSlotOfBank(b, pit)

\* the board once the stones of the source pit are sown, before any capture
RefSown(b, player, pit) ==
    LET s == RefSource(b, player, pit)
        c == RefCycle(b)
        mover == RefSide(b, player)
        opp == RefSide(b, 1 - player)
        mover_sown ==
            [pits_ |-> [i \in DOMAIN mover.pits_ |->
                          (IF i = pit THEN 0 ELSE mover.pits_[i])
                          + RefReceived(s, RefSlotOfMoverPit(b, pit, i), c)],
             bank_ |-> mover.bank_ + RefReceived(s, RefSlotOfBank(b, pit), c)]
        opp_sown ==
            [pits_ |-> [i \in DOMAIN opp.pits_ |->
                          opp.pits_[i] + RefReceived(s, RefSlotOfOpposingPit(b, pit, i), c)],
             bank_ |-> opp.bank_]
    IN  IF player = 0 THEN BoardState(mover_sown, opp_sown)
        ELSE BoardState(opp_sown, mover_sown)

\* the last stone is placed in pit i of the mover's own side
RefLandsInMoverPit(b, player, pit, i) ==
    RefLastSlot(b, player, pit) = RefSlotOfMoverPit(b, pit, i)

\* the condition of a capture in pit i: the last stone is placed in pit i of
\* the mover, which held no stone before that placement, and the mirrored pit
\* of the opponent holds stones
RefCaptureIn(b, player, pit, i) ==
    LET sown == RefSown(b, player, pit)
    IN  /\ RefLandsInMoverPit(b, player, pit, i)
        /\ RefSide(sown, player).pits_[i] - 1 = 0
        /\ RefSide(sown, 1 - player).pits_[boardNumPits(b) - 1 - i] > 0

\* the board after the capture in pit i
RefCaptured(b, player, pit, i) ==
    LET sown == RefSown(b, player, pit)
        mover == RefSide(sown, player)
        opp == RefSide(sown, 1 - player)
        m == boardNumPits(b) - 1 - i
        mover_after == [pits_ |-> [mover.pits_ EXCEPT ![i] = 0],
                        bank_ |-> mover.bank_ + 1 + opp.pits_[m]]
        opp_after == [pits_ |-> [opp.pits_ EXCEPT ![m] = 0], bank_ |-> opp.bank_]
    IN  IF player = 0 THEN BoardState(mover_after, opp_after)
        ELSE BoardState(opp_after, mover_after)

IsTurn(l) == l.op \in {"TurnExecutor::playTurn", "GameMechanicsExecutor::playTurn"}

\* the bank of a player once the pits are swept
RefFinalBank(b, player) == RefSide(b, player).bank_ + RefPitSum(RefSide(b, player))

\* the board a legal turn leads to and the player who moves next
RefAfter(b, player, pit) ==
    LET sown == RefSown(b, player, pit)
        I == { i \in DOMAIN RefSide(b, player).pits_ : RefCaptureIn(b, player, pit, i) }
    IN  [board_state |-> IF I = {} THEN sown
                         ELSE RefCaptured(b, player, pit, CHOOSE i \in I : TRUE),
         active |-> IF RefLandsInBank(b, player, pit) THEN player ELSE 1 - player]

\* minimax over the whole game tree: root wins the position b with `player`
\* to move iff root has a move that wins (its own turn) or every move of the
\* opponent wins for root (the opponent's turn); a finished game is won by
\* root iff its final bank is strictly the larger
RECURSIVE RefForcedWin(_, _, _)
RECURSIVE RefMoveWins(_, _, _, _)
RefMoveWins(b, player, pit, root) ==
    LET n == RefAfter(b, player, pit)
    IN  IF RefFinished(n.board_state)
        THEN RefFinalBank(n.board_state, root) > RefFinalBank(n.board_state, 1 - root)
        ELSE RefForcedWin(n.board_state, n.active, root)

RefForcedWin(b, player, root) ==
    LET moves == { i \in DOMAIN RefSide(b, player).pits_ : RefValid(b, player, i) }
    IN  IF player = root
        THEN \E i \in moves : RefMoveWins(b, player, i, root)
        ELSE \A i \in moves : RefMoveWins(b, player, i, root)

\* ------------------------------------------------------------------------
\* Properties
\* ------------------------------------------------------------------------
\* C1: stone conservation.  In every reachable state the stones of all pits
\* of both sides plus the two banks are as many as when the board was
\* constructed, whatever turns (valid or not) and finish sweeps were made.
StoneConservation == RefTotal(board_state) = initial_total

\* a turn with a capture has just been played
StoneConservationWitness ==
    /\ last.op = "GameMechanicsExecutor::playTurn"
    /\ last.captured
    /\ board_state # last.pre
    /\ RefTotal(last.pre) = initial_total

\* C2: forced-win soundness.  When solve returns (pit, guaranteedWin = TRUE)
\* for a position that is not finished, the pit is a legal move and a forced
\* win of the player to move: whatever the opponent plays, that player can
\* end the game with a strictly larger final bank.
ForcedWinSoundness ==
    (/\ last.op = "Solver::solve"
     /\ ~RefFinished(last.pre)
     /\ last.solution.guaranteed)
    => /\ RefValid(last.pre, last.pre_active, last.solution.pit)
       /\ RefMoveWins(last.pre, last.pre_active, last.solution.pit, last.pre_active)

\* C3: forced-win completeness.  When some legal root move is a forced win of
\* the player to move, solve returns guaranteedWin = TRUE.
ForcedWinCompleteness ==
    (/\ last.op = "Solver::solve"
     /\ \E i \in DOMAIN RefSide(last.pre, last.pre_active).pits_ :
          /\ RefValid(last.pre, last.pre_active, i)
          /\ RefMoveWins(last.pre, last.pre_active, i, last.pre_active))
    => last.solution.guaranteed

\* solve was called where the only forced wins are moves that do not end the
\* game at once, so that the inner search had to find them
ForcedWinCompletenessWitness ==
    /\ last.op = "Solver::solve"
    /\ ~RefFinished(last.pre)
    /\ last.solution.guaranteed
    /\ \E i \in DOMAIN RefSide(last.pre, last.pre_active).pits_ :
         /\ RefValid(last.pre, last.pre_active, i)
         /\ RefMoveWins(last.pre, last.pre_active, i, last.pre_active)
    /\ \A i \in DOMAIN RefSide(last.pre, last.pre_active).pits_ :
         RefValid(last.pre, last.pre_active, i)
         => ~RefFinished(RefAfter(last.pre, last.pre_active, i).board_state)

\* C4: sowing order.  In a valid turn the board, when the capture check
\* starts (or when the turn returns without one), is the board in which the
\* source pit was emptied and its s stones were placed one per slot along the
\* cycle of 2N+1 slots that starts after the source pit and skips the
\* opponent's bank.
SowingOrder ==
    (IsTurn(last) /\ RefValid(last.pre, last.player, last.pit))
    => /\ last.sown = RefSown(last.pre, last.player, last.pit)
       /\ RefSide(last.sown, 1 - last.player).bank_
            = RefSide(last.pre, 1 - last.player).bank_

\* a valid turn that sowed at least one full lap of the cycle
SowingOrderWitness ==
    /\ IsTurn(last)
    /\ RefValid(last.pre, last.player, last.pit)
    /\ RefSource(last.pre, last.player, last.pit) >= RefCycle(last.pre)

\* C5: capture rule.  In a valid turn the capture is made iff the last stone
\* is placed in a pit i of the mover that held no stone before that placement
\* and the mirrored pit N-1-i of the opponent holds stones; then the bank of
\* the mover gains 1 plus the mirrored pit's stones and both pits are zero;
\* otherwise the board is the sown board.
CaptureRule ==
    (IsTurn(last) /\ RefValid(last.pre, last.player, last.pit))
    => LET I == { i \in DOMAIN RefSide(last.pre, last.player).pits_ :
                    RefCaptureIn(last.pre, last.player, last.pit, i) }
       IN  /\ last.captured <=> (I # {})
           /\ \A i \in I :
                board_state = RefCaptured(last.pre, last.player, last.pit, i)
           /\ (I = {}) => board_state = RefSown(last.pre, last.player, last.pit)

\* a valid turn made a capture
CaptureRuleWitness ==
    /\ IsTurn(last)
    /\ RefValid(last.pre, last.player, last.pit)
    /\ last.captured
    /\ \E i \in DOMAIN RefSide(last.pre, last.player).pits_ :
         RefCaptureIn(last.pre, last.player, last.pit, i)

\* C6: bank-landing rule.  A valid turn returns ended_in_bank = TRUE iff the
\* last stone is placed in the mover's bank, and then no capture is made: the
\* board is the sown board.
BankLandingRule ==
    (IsTurn(last) /\ RefValid(last.pre, last.player, last.pit))
    => /\ last.result.valid
       /\ last.result.ended_in_bank
            <=> RefLandsInBank(last.pre, last.player, last.pit)
       /\ RefLandsInBank(last.pre, last.player, last.pit)
            => /\ ~last.captured
               /\ board_state = RefSown(last.pre, last.player, last.pit)

\* a valid turn whose last stone went into the bank after a full lap
BankLandingRuleWitness ==
    /\ IsTurn(last)
    /\ RefValid(last.pre, last.player, last.pit)
    /\ last.result.ended_in_bank
    /\ RefLandsInBank(last.pre, last.player, last.pit)
    /\ RefSource(last.pre, last.player, last.pit) > RefCycle(last.pre)

\* C7: extra-turn property.  The active player is 0 or 1; a valid turn of the
\* executor whose last stone lands in the mover's bank leaves it, every other
\* valid turn of the executor toggles it, and nothing else changes it.
ExtraTurnProperty ==
    /\ active_player_index_ \in {0, 1}
    /\ IF /\ last.op = "GameMechanicsExecutor::playTurn"
          /\ RefValid(last.pre, last.pre_active, last.pit)
       THEN /\ last.ret
            /\ active_player_index_ =
                 IF RefLandsInBank(last.pre, last.pre_active, last.pit)
                 THEN last.pre_active ELSE 1 - last.pre_active
       ELSE active_player_index_ = last.pre_active

\* the executor played a valid turn that did not end in the bank
ExtraTurnPropertyWitness ==
    /\ last.op = "GameMechanicsExecutor::playTurn"
    /\ RefValid(last.pre, last.pre_active, last.pit)
    /\ ~RefLandsInBank(last.pre, last.pre_active, last.pit)
    /\ active_player_index_ # last.pre_active

\* C8: invalid move.  A turn with a player other than 0 and 1, a pit index
\* out of range or an empty source pit is reported invalid, throws nothing and
\* leaves every pit, both banks and the active player as they were.
InvalidMove ==
    (IsTurn(last) /\ ~RefValid(last.pre, last.player, last.pit))
    => /\ ~last.result.valid
       /\ ~last.result.ended_in_bank
       /\ ~last.ret
       /\ ~last.threw
       /\ board_state = last.pre
       /\ active_player_index_ = last.pre_active

\* a turn from an empty pit of a board that has stones in its pits
InvalidMoveWitness ==
    /\ IsTurn(last)
    /\ last.player \in {0, 1}
    /\ last.pit \in DOMAIN RefSide(last.pre, last.player).pits_
    /\ RefSource(last.pre, last.player, last.pit) = 0
    /\ ~RefFinished(last.pre)
    /\ ~last.ret

\* C9: finish sweep and winner.  getWinnerPlayerIndex on a position with a
\* side whose pits are all zero leaves every pit zero, each bank being the
\* bank before plus the side's own pits before, and returns 0 or 1 for the
\* strictly larger bank and 2 for equal banks.
FinishSweep ==
    (last.op = "getWinnerPlayerIndex" /\ RefFinished(last.pre))
    => /\ \A p \in {0, 1} :
            /\ \A i \in DOMAIN RefSide(board_state, p).pits_ :
                 RefSide(board_state, p).pits_[i] = 0
            /\ RefSide(board_state, p).bank_ = RefFinalBank(last.pre, p)
       /\ last.winner.has_value
       /\ last.winner.value =
            IF RefFinalBank(last.pre, 0) > RefFinalBank(last.pre, 1) THEN 0
            ELSE IF RefFinalBank(last.pre, 1) > RefFinalBank(last.pre, 0) THEN 1
            ELSE 2

\* a sweep that moved stones and decided the winner by them
FinishSweepWitness ==
    /\ last.op = "getWinnerPlayerIndex"
    /\ RefFinished(last.pre)
    /\ board_state # last.pre
    /\ last.winner.has_value
    /\ last.winner.value = 1
    /\ RefSide(last.pre, 0).bank_ > RefSide(last.pre, 1).bank_

\* C10: finish detection.  isGameFinished is TRUE iff all pits of player 0 are
\* zero or all pits of player 1 are zero; when it is FALSE,
\* getWinnerPlayerIndex returns no value and changes no pit and no bank.
FinishDetection ==
    /\ isGameFinished(board_state) <=> RefFinished(board_state)
    /\ (last.op = "isGameFinished") => (last.ret <=> RefFinished(last.pre))
    /\ (last.op = "getWinnerPlayerIndex" /\ ~RefFinished(last.pre))
         => (~last.winner.has_value /\ board_state = last.pre)

\* getWinnerPlayerIndex was called on a board with stones on both sides
FinishDetectionWitness ==
    /\ last.op = "getWinnerPlayerIndex"
    /\ ~RefFinished(last.pre)
    /\ ~isGameFinished(last.pre)
    /\ ~last.winner.has_value

\* ------------------------------------------------------------------------
\* C11  The finished state is absorbing: when isGameFinished holds of the
\* position before a GameMechanicsExecutor::playTurn call, it holds of the
\* position after it (no turn takes the game from finished back to in
\* progress)
\* ------------------------------------------------------------------------
FinishedIsAbsorbing ==
    ((last.op = "GameMechanicsExecutor::playTurn") /\ RefFinished(last.pre))
        => RefFinished(board_state)

\* ------------------------------------------------------------------------
\* The ratio of root pit i as the fallback loop compares it: winning / total,
\* and nothing above 0 when the pit has no branch (winning and total are then
\* both 0, the double is NaN and NaN > x is false)
RefRatioLess(c, i, j) ==
    LET den(k) == IF c.num_total_branches_[k] = 0 THEN 1 ELSE c.num_total_branches_[k]
    IN  c.num_winning_branches_[i] * den(j) < c.num_winning_branches_[j] * den(i)

RefLegalPits(b, player) ==
    { i \in DOMAIN RefSide(b, player).pits_ : RefValid(b, player, i) }

\* the pit p has the highest ratio of the counters c among the legal root
\* pits, and is the lowest index to have it
RefHighestRatio(c, b, player, p) ==
    /\ \A j \in RefLegalPits(b, player) : ~RefRatioLess(c, p, j)
    /\ \A j \in DOMAIN c.num_total_branches_ : (j < p) => RefRatioLess(c, j, p)

\* C12: fallback selection.  When no legal root move is a forced win of the
\* player to move (minimax over the whole game tree), solve returns
\* guaranteedWin = FALSE and a pit whose recorded ratio winning / total is
\* the highest among the legal root pits, never a pit without branches in
\* preference to one with a positive ratio, and the lowest index among equal
\* highest ratios.
FallbackSelection ==
    (/\ last.op = "Solver::solve"
     /\ \A i \in RefLegalPits(last.pre, last.pre_active) :
          ~RefMoveWins(last.pre, last.pre_active, i, last.pre_active))
    => /\ ~last.solution.guaranteed
       /\ RefHighestRatio(last.counters, last.pre, last.pre_active, last.solution.pit)

\* what the fallback loop does by itself: whenever solve returns
\* guaranteedWin = FALSE, the pit is chosen as C12 says
FallbackSelectionOfLoop ==
    ((last.op = "Solver::solve") /\ ~last.solution.guaranteed)
    => RefHighestRatio(last.counters, last.pre, last.pre_active, last.solution.pit)

\* solve fell back on the ratios where the first pit does not have the
\* highest
FallbackSelectionOfLoopWitness ==
    /\ last.op = "Solver::solve"
    /\ ~last.solution.guaranteed
    /\ last.solution.pit > 0

\* ------------------------------------------------------------------------
\* The fraction of root pit i that the comment on solve ranks by:
\* (winning + drawn) / total, nothing above 0 when the pit has no branch
RefFractionLess(c, i, j) ==
    LET den(k) == IF c.num_total_branches_[k] = 0 THEN 1 ELSE c.num_total_branches_[k]
        num(k) == c.num_winning_branches_[k] + c.num_drawn_branches_[k]
    IN  num(i) * den(j) < num(j) * den(i)

\* C13: documented fallback ranking.  When no legal root move is a forced
\* win of the player to move, solve returns FALSE as its second value and a
\* root move whose fraction of (winning + drawn) branches among its total
\* branches is the highest of all legal root moves.
DocumentedFallbackRanking ==
    (/\ last.op = "Solver::solve"
     /\ \A i \in RefLegalPits(last.pre, last.pre_active) :
          ~RefMoveWins(last.pre, last.pre_active, i, last.pre_active))
    => /\ ~last.solution.guaranteed
       /\ \A j \in RefLegalPits(last.pre, last.pre_active) :
            ~RefFractionLess(last.counters, last.solution.pit, j)

\* the ranking alone: whenever solve returns FALSE as its second value, the
\* move has the highest fraction of (winning + drawn) branches
DocumentedRankingOfLoop ==
    ((last.op = "Solver::solve") /\ ~last.solution.guaranteed)
    => \A j \in RefLegalPits(last.pre, last.pre_active) :
         ~RefFractionLess(last.counters, last.solution.pit, j)

\* ------------------------------------------------------------------------
\* What the search reports of the tree of positions below b, in which every
\* move is played from the position and the player to move of its parent:
\* root's own move is good when it ends the game with root the winner or
\* leads to a good position, the opponent's move is good unless it ends the
\* game with the opponent the winner or leads to a position that is not good;
\* a position is good when root has a good move, or the opponent has none
\* that is not
RECURSIVE RefSearchVerdict(_, _, _)
RefMoveVerdict(b, player, pit, root) ==
    LET n == RefAfter(b, player, pit)
    IN  IF RefFinished(n.board_state)
        THEN IF player = root
             THEN RefFinalBank(n.board_state, root) > RefFinalBank(n.board_state, 1 - root)
             ELSE RefFinalBank(n.board_state, root) >= RefFinalBank(n.board_state, 1 - root)
        ELSE RefSearchVerdict(n.board_state, n.active, root)

RefSearchVerdict(b, player, root) ==
    IF player = root
    THEN \E i \in RefLegalPits(b, player) : RefMoveVerdict(b, player, i, root)
    ELSE \A i \in RefLegalPits(b, player) : RefMoveVerdict(b, player, i, root)

RefGoodRootPits(b, player) ==
    { i \in RefLegalPits(b, player) : RefMoveVerdict(b, player, i, player) }

\* C14: solve is read-only for its caller.  After solve the caller's board
\* (every pit, both banks) and the active player of the caller's executor are
\* what they were before the call, and every root move and every sibling
\* move of the recursion was evaluated from its parent's position and player
\* to move: the returned flag is the verdict of the tree of positions below
\* the caller's, and a move returned with TRUE is the first good root move.
SolveReadOnly ==
    (last.op = "Solver::solve")
    => /\ board_state = last.pre
       /\ active_player_index_ = last.pre_active
       /\ last.solution.guaranteed = (RefGoodRootPits(last.pre, last.pre_active) # {})
       /\ last.solution.guaranteed
            => /\ last.solution.pit \in RefGoodRootPits(last.pre, last.pre_active)
               /\ \A j \in RefGoodRootPits(last.pre, last.pre_active) :
                    last.solution.pit <= j

\* solve has returned from a search that went at least three turns deep in a
\* position with more than one legal root move
SolveReadOnlyWitness ==
    /\ last.op = "Solver::solve"
    /\ Cardinality(RefLegalPits(last.pre, last.pre_active)) >= 2
    /\ last.counters.max_turns >= 3
    /\ board_state = last.pre
    /\ active_player_index_ = last.pre_active

\* ------------------------------------------------------------------------
\* the call l was a valid turn from a pit that held exactly one stone
RefSingleStone(l) ==
    IsTurn(l) /\ l.result.valid /\ (RefSource(l.pre, l.player, l.pit) = 1)

\* the next slot after the source pit of l is the mover's bank
RefNextIsBank(l) == l.pit = boardNumPits(l.pre) - 1

\* the mover's side of l.pre with the one stone moved to the next slot
RefSingleStoneSide(l) ==
    LET side == RefSide(l.pre, l.player)
    IN  IF RefNextIsBank(l)
        THEN [pits_ |-> [side.pits_ EXCEPT ![l.pit] = 0], bank_ |-> side.bank_ + 1]
        ELSE [pits_ |-> [side.pits_ EXCEPT ![l.pit] = 0, ![l.pit + 1] = @ + 1],
              bank_ |-> side.bank_]

\* the sowing of l placed the stone in the next slot and nowhere else
RefSingleStonePlaced(l) ==
    /\ RefSide(l.sown, l.player) = RefSingleStoneSide(l)
    /\ RefSide(l.sown, 1 - l.player) = RefSide(l.pre, 1 - l.player)

\* C15: single-stone sowing.  A valid turn from a pit p that holds exactly
\* one stone places the stone in pit p+1 of the mover's side (in the mover's
\* bank when p is the last pit), and makes no capture and does not end in the
\* bank unless that next slot is the mover's bank.
SingleStoneSowing ==
    RefSingleStone(last)
    => /\ RefSingleStonePlaced(last)
       /\ ~RefNextIsBank(last) => (~last.captured /\ ~last.result.ended_in_bank)

\* C15 as the code has it: the stone goes to the next slot; the turn ends in
\* the bank exactly when that slot is the mover's bank; it captures exactly
\* when that slot is a pit that was empty and the opponent's pit across from
\* it (N-2-p) holds stones.
SingleStoneSowingWithCapture ==
    RefSingleStone(last)
    => /\ RefSingleStonePlaced(last)
       /\ last.result.ended_in_bank = RefNextIsBank(last)
       /\ last.captured
            = (/\ ~RefNextIsBank(last)
               /\ RefSide(last.pre, last.player).pits_[last.pit + 1] = 0
               /\ RefSide(last.pre, 1 - last.player).pits_[boardNumPits(last.pre) - 2 - last.pit] > 0)

\* a turn from a pit with one stone captured from the next pit
SingleStoneSowingWithCaptureWitness ==
    /\ RefSingleStone(last)
    /\ ~RefNextIsBank(last)
    /\ last.captured
    /\ RefSide(board_state, last.player).bank_ > RefSide(last.pre, last.player).bank_ + 1

\* ------------------------------------------------------------------------
\* no pit and no bank of the board b holds a negative count
RefNonNegative(b) ==
    \A player \in {0, 1} :
      /\ RefSide(b, player).bank_ >= 0
      /\ \A i \in DOMAIN RefSide(b, player).pits_ : RefSide(b, player).pits_[i] >= 0

\* C16: non-negativity.  Every board is constructed with no negative count,
\* and in every state reached by turns (valid or not), finish sweeps and
\* calls of the solver, every pit and both banks hold a count >= 0, also on
\* the board as it is between the sowing and the capture of a turn.  (The
\* positions the solver explores are reached by turns and finish checks from
\* the caller's, so they are among these states.)
NonNegativity == RefNonNegative(board_state) /\ RefNonNegative(last.sown)

\* a turn has captured, or a finished game has been swept: stones were taken
\* out of pits and no count went below 0
NonNegativityWitness ==
    /\ \/ IsTurn(last) /\ last.captured
       \/ (last.op = "getWinnerPlayerIndex") /\ last.ret /\ (RefPitSum(RefSide(last.pre, 0)) + RefPitSum(RefSide(last.pre, 1)) > 0)
    /\ RefNonNegative(board_state)
    /\ board_state # last.pre

\* ------------------------------------------------------------------------
\* C17: construction error.  Constructing a board from two sides throws
\* (there is then no board, and no call is ever made on one) exactly when
\* the two sides differ in their number of pits; every board that exists has
\* the same number of pits on both sides, and no call changes it: after
\* every call both sides have the number of pits they had before it.
ConstructionError ==
    /\ (last.op = "BoardState::BoardState")
         => (last.threw = (getNumPits(board_state.player_0_board_state_)
                            # getNumPits(board_state.player_1_board_state_)))
    /\ ((last.op = "BoardState::BoardState") /\ last.threw)
         \/ /\ getNumPits(board_state.player_0_board_state_)
                 = getNumPits(board_state.player_1_board_state_)
            /\ getNumPits(board_state.player_0_board_state_)
                 = getNumPits(last.pre.player_0_board_state_)
            /\ getNumPits(board_state.player_1_board_state_)
                 = getNumPits(last.pre.player_1_board_state_)

\* the constructor was given sides of different pit counts and threw
ConstructionErrorWitness ==
    /\ last.op = "BoardState::BoardState"
    /\ last.threw
    /\ getNumPits(board_state.player_0_board_state_)
         # getNumPits(board_state.player_1_board_state_)

\* ------------------------------------------------------------------------
\* C18: internal invariant of the sowing loop.  TurnExecutor::playTurn for a
\* player in {0, 1}, a pit in range and a source pit with s > 0 stones
\* returns a valid result from one of the two dropping phases: the stones
\* never run out without a result, so the throw of std::logic_error after
\* the while loop is not reached.
SowingLoopReturns ==
    (/\ IsTurn(last)
     /\ last.player \in {0, 1}
     /\ last.pit \in DOMAIN RefSide(last.pre, last.player).pits_
     /\ RefSource(last.pre, last.player, last.pit) > 0)
    => (~last.threw /\ last.result.valid)

\* a turn whose stones went through the while loop: over the mover's bank,
\* along the whole opposing side and back onto the mover's side
SowingLoopReturnsWitness ==
    /\ IsTurn(last)
    /\ last.player \in {0, 1}
    /\ last.pit \in DOMAIN RefSide(last.pre, last.player).pits_
    /\ RefSource(last.pre, last.player, last.pit)
         > 2 * boardNumPits(last.pre) - last.pit
    /\ ~last.threw
    /\ last.result.valid

\* ------------------------------------------------------------------------
\* the stones in the pits of both sides
RefStonesInPits(b) == RefPitSum(RefSide(b, 0)) + RefPitSum(RefSide(b, 1))

\* how far the stones have gone along their sides: each stone counts the
\* index of its pit
RefAdvance(b) ==
    LET adv(s) == RefSetSum([i \in DOMAIN s.pits_ |-> i * s.pits_[i]], DOMAIN s.pits_)
    IN  adv(RefSide(b, 0)) + adv(RefSide(b, 1))

\* the line of turns is over: the finish check after a turn found the game
\* finished, or no board could be constructed
RefLineOver ==
    \/ last.threw
    \/ (last.op = "Solver::solveInner") /\ RefFinished(board_state)

\* C19: termination.  From every position with no negative count, every
\* sequence of valid turns with the finish check made after each turn, as
\* solve and solveInner make it, reaches a finished position after finitely
\* many turns.  Every turn of a line takes stones out of the pits for good
\* (into a bank), or leaves as many in the pits and moves some to pits of
\* higher index on their side: a measure that is bounded, so that no line
\* goes on for ever; and a line does not stop before the position is
\* finished: where the player to move has no valid turn, a side is empty.
Termination ==
    /\ [](RefLineOver \/ RefFinished(board_state)
            \/ RefLegalPits(board_state, active_player_index_) # {})
    /\ [][\/ RefStonesInPits(board_state') < RefStonesInPits(board_state)
           \/ /\ RefStonesInPits(board_state') = RefStonesInPits(board_state)
              /\ RefAdvance(board_state') > RefAdvance(board_state)]_vars

\* a turn of a line took stones out of the pits of a position that was not
\* finished, the finish check found the game finished and the line ended
TerminationWitness ==
    /\ last.op = "Solver::solveInner"
    /\ ~RefFinished(last.pre)
    /\ RefFinished(board_state)
    /\ RefLineOver

\* ------------------------------------------------------------------------
\* the deepest nesting of solveInner in the call whose counters are c: the
\* turn that a frame plays is one more than the frames on the stack
RefNestingDepth(c) == IF c.max_turns > 0 THEN c.max_turns - 1 ELSE 0

\* C20: depth bound.  In every call of solve the nesting depth of solveInner
\* (the turns played along an explored line after the root move) is at most
\* the number of stones of the root position, all pits and both banks.
DepthBound ==
    (last.op = "Solver::solve")
    => RefNestingDepth(last.counters) <= RefTotal(last.pre)

\* the most turns a line can have on a board of N pits a side with T stones:
\* at most T turns put a stone in a bank, and between two of them at most
\* (N - 1) * (the stones still in the pits) turns only move stones to pits of
\* higher index on the mover's side
RefTurnBound(b) ==
    RefTotal(b) + (boardNumPits(b) - 1) * ((RefTotal(b) * (RefTotal(b) + 1)) \div 2)

\* C20 as the code has it: with N pits a side and T stones in the root
\* position, no explored line has more than T + (N - 1) * T * (T + 1) / 2
\* turns, the root move included; the nesting depth of solveInner can exceed
\* T when N >= 3.
DepthBoundByPits ==
    (last.op = "Solver::solve")
    => last.counters.max_turns <= RefTurnBound(last.pre)

\* a call of solve in which solveInner was nested deeper than the stones of
\* the root position
DepthBoundByPitsWitness ==
    /\ last.op = "Solver::solve"
    /\ RefNestingDepth(last.counters) > RefTotal(last.pre)
    /\ last.counters.max_turns <= RefTurnBound(last.pre)

\* ------------------------------------------------------------------------
\* C21: branch counting.  When solve returns, for every root pit r the
\* counter winning[r] is the number of game-ending turns of the inner search
\* of r that the root player won and drawn[r] the number of those that were
\* tied (one for each, none for any other root pit), and total[r] is at least
\* winning[r] + drawn[r] and at most the number of game-ending turns of that
\* inner search: no leaf is counted twice.
BranchCounting ==
    (last.op = "Solver::solve")
    => \A r \in DOMAIN last.counters.num_total_branches_ :
         /\ last.counters.num_winning_branches_[r] = last.counters.won_leaves[r]
         /\ last.counters.num_drawn_branches_[r] = last.counters.tied_leaves[r]
         /\ last.counters.num_total_branches_[r]
              >= last.counters.num_winning_branches_[r]
                   + last.counters.num_drawn_branches_[r]
         /\ last.counters.num_total_branches_[r] <= last.counters.leaves[r]

\* all of C21 but the bound of total: winning and drawn count each leaf once
\* under its own root pit, and total is not less than their sum
BranchCountingOfWinsAndTies ==
    (last.op = "Solver::solve")
    => \A r \in DOMAIN last.counters.num_total_branches_ :
         /\ last.counters.num_winning_branches_[r] = last.counters.won_leaves[r]
         /\ last.counters.num_drawn_branches_[r] = last.counters.tied_leaves[r]
         /\ last.counters.num_total_branches_[r]
              >= last.counters.num_winning_branches_[r]
                   + last.counters.num_drawn_branches_[r]

\* ------------------------------------------------------------------------
\* C22: pruning does not change the forced-win determination.  The flag that
\* solve returns, and the boolean that solveInner returns for the position
\* with either player as the root player, are those of the search without
\* the early returns, in which every legal sibling is explored: some move is
\* winning at a node of the root player, no move escapes at a node of the
\* opponent.
PruningKeepsVerdict ==
    (last.op = "Solver::solve")
    => /\ last.solution.guaranteed = (RefGoodRootPits(last.pre, last.pre_active) # {})
       /\ ~RefFinished(last.pre)
            => \A root \in {0, 1} :
                 solveInner(last.pre, last.pre_active, root, 0,
                            zeroCounters(boardNumPits(last.pre))).ret
                   = RefSearchVerdict(last.pre, last.pre_active, root)

\* solve returned TRUE at a root move after which other legal root moves
\* were left unexplored, from a search that went at least three turns deep
PruningKeepsVerdictWitness ==
    /\ last.op = "Solver::solve"
    /\ ~RefFinished(last.pre)
    /\ last.solution.guaranteed
    /\ \E j \in RefLegalPits(last.pre, last.pre_active) : j > last.solution.pit
    /\ last.counters.max_turns >= 3

\* ------------------------------------------------------------------------
\* C23: banks are permanent stores.  After every call (a turn, valid or not,
\* a finish check with its sweep, a call of the solver) the bank of each
\* player holds at least what it held before the call, also between the
\* sowing and the capture of a turn; and after a turn of player P the bank
\* of the other player holds exactly what it held before.
BanksArePermanent ==
    /\ \A player \in {0, 1} :
         /\ RefSide(last.sown, player).bank_ >= RefSide(last.pre, player).bank_
         /\ RefSide(board_state, player).bank_ >= RefSide(last.sown, player).bank_
    /\ (IsTurn(last) /\ last.player \in {0, 1})
         => /\ RefSide(last.sown, 1 - last.player).bank_
                 = RefSide(last.pre, 1 - last.player).bank_
            /\ RefSide(board_state, 1 - last.player).bank_
                 = RefSide(last.pre, 1 - last.player).bank_

\* a valid turn added to a bank of the mover that held stones, while the
\* other player's bank held stones too
BanksArePermanentWitness ==
    /\ IsTurn(last)
    /\ last.result.valid
    /\ RefSide(last.pre, last.player).bank_ > 0
    /\ RefSide(last.pre, 1 - last.player).bank_ > 0
    /\ RefSide(board_state, last.player).bank_ > RefSide(last.pre, last.player).bank_
    /\ RefSide(board_state, 1 - last.player).bank_
         = RefSide(last.pre, 1 - last.player).bank_

\* ------------------------------------------------------------------------
\* C24: the returned move is legal.  For every position that is not
\* finished, the pit that solve returns, with TRUE or with FALSE, is a pit
\* in range on the side of the player to move that holds at least one stone.
ReturnedMoveLegal ==
    ((last.op = "Solver::solve") /\ ~RefFinished(last.pre))
    => RefValid(last.pre, last.pre_active, last.solution.pit)

\* the part of C24 that the root loop keeps: a move returned with TRUE is
\* legal
ReturnedWinningMoveLegal ==
    ((last.op = "Solver::solve") /\ last.solution.guaranteed)
    => RefValid(last.pre, last.pre_active, last.solution.pit)

\* ------------------------------------------------------------------------
\* C25: a finalized position is a fixed point.
\* a position the sweep has been through: no stone in any pit
RefFinalized(b) == RefStonesInPits(b) = 0

\* the winner the banks of b give: 0, 1, or 2 for a tie
RefBankWinner(b) ==
    IF RefSide(b, 0).bank_ > RefSide(b, 1).bank_ THEN 0
    ELSE IF RefSide(b, 1).bank_ > RefSide(b, 0).bank_ THEN 1
    ELSE 2

\* a further GameMechanicsExecutor::playTurn result g on position b with
\* player active to move: invalid, and nothing changed
RefTurnRefused(g, b, active) ==
    /\ ~g.ret
    /\ ~g.turn.result.valid
    /\ g.board_state = b
    /\ g.active = active

\* C25: after getWinnerPlayerIndex has returned a winner w for a position,
\* (1) the position has no stone in any pit and w is what the banks say;
\* (2) GameMechanicsExecutor::playTurn on it is invalid for every pit of the
\*     board and either player to move, and changes neither the board nor the
\*     player to move;
\* (3) isGameFinished on it is true;
\* (4) getWinnerPlayerIndex on it returns the same w and the same board.
\* The last three conjuncts say the same of the calls the program makes on a
\* position without stones in the pits, which is what every later call on
\* the finalized position is.
FinalizedIsFixedPoint ==
    /\ ((last.op = "getWinnerPlayerIndex") /\ last.winner.has_value)
       => /\ RefFinalized(board_state)
          /\ last.winner.value = RefBankWinner(board_state)
          /\ \A active \in {0, 1} :
               \A pit_index \in 0..(boardNumPits(board_state) - 1) :
                 RefTurnRefused(gmePlayTurn(active, pit_index, board_state),
                                board_state, active)
          /\ isGameFinished(board_state)
          /\ getWinnerPlayerIndex(board_state)
               = [ret |-> last.winner, board_state |-> board_state]
    /\ ((last.op = "GameMechanicsExecutor::playTurn") /\ RefFinalized(last.pre))
       => /\ (last.pit < boardNumPits(last.pre)) => (~last.ret /\ ~last.threw)
          /\ board_state = last.pre
          /\ active_player_index_ = last.pre_active
    /\ ((last.op = "isGameFinished") /\ RefFinalized(last.pre))
       => last.ret
    /\ ((last.op = "getWinnerPlayerIndex") /\ RefFinalized(last.pre))
       => /\ board_state = last.pre
          /\ last.winner = winnerValue(RefBankWinner(last.pre))

\* getWinnerPlayerIndex is called a second time on a position it has swept
\* before, with stones in both banks and a winner who is a player: it names
\* the same winner and leaves the board alone
FinalizedIsFixedPointWitness ==
    /\ last.op = "getWinnerPlayerIndex"
    /\ RefFinalized(last.pre)
    /\ last.winner.has_value
    /\ last.winner.value \in {0, 1}
    /\ RefSide(last.pre, 0).bank_ > 0
    /\ RefSide(last.pre, 1).bank_ > 0
    /\ board_state = last.pre
    /\ boardNumPits(board_state) >= 2

====
